---- MODULE Spec2Model ----
(***************************************************************************)
(* Multi-provider ETF data aggregation layer (ETFProviderFactory).         *)
(*                                                                         *)
(* The factory owns a registry of providers, a priority list and a health  *)
(* map.  Each of its eight data operations runs executeWithFallback: walk  *)
(* the priority list, skip unregistered / unhealthy / incapable providers, *)
(* await the provider call, return the first success or a synthetic        *)
(* "factory" failure.                                                      *)
(*                                                                         *)
(* JavaScript runs every piece of code between two awaits atomically, so   *)
(* one action of the model is one such run-to-suspension segment.          *)
(*                                                                         *)
(* Spec draws the outcome of a provider call from everything the           *)
(* IETFDataProvider interface allows (success, domain failure, exception); *)
(* SpecShipped computes it from the code of the five shipped providers.    *)
(* SpecDirect and SpecShippedDirect add the requests that name a provider  *)
(* and call it through getProvider; SpecModule is the instances built      *)
(* through index.ts, the default instance included.  In these requests     *)
(* are served one at a time and the priority list is replaced between      *)
(* requests.  SpecConcurrent has two activations in flight on one factory, *)
(* with setProviderPriority and healthCheck between any two segments;      *)
(* SpecTwin runs one request on two instances in the same state; SpecFair  *)
(* is the factory when every awaited provider call settles.  The timestamp *)
(* field of a response (Date.now()) is left out.                           *)
(***************************************************************************)
EXTENDS Integers, Sequences, FiniteSets, TLC

(***************************************************************************)
(* Bounds of the model.                                                    *)
(***************************************************************************)
\* largest number of API keys that are configured in the environment
MaxConfigured == 2
\* longest list handed to setProviderPriority
MaxPriorityLen == 2

\* activations of executeWithFallback when requests are served one at a time
Chains == {1}

(***************************************************************************)
(* Names and static tables.                                                *)
(***************************************************************************)
\* type ProviderName
ProviderName == {"polygon", "finnhub", "eodhd", "fmp", "alpha-vantage"}

\* keys of interface ProviderCredentials
CredentialKeys == {"polygon", "finnhub", "eodhd", "fmp", "alphaVantage"}

\* an environment variable that is not set
Undefined == "<undefined>"

\* values an API key can have in process.env
CredentialValues == {Undefined, "", "key"}

\* JavaScript truthiness of an optional string
Truthy(v) == v # Undefined /\ v # ""

\* keys of interface ProviderCapabilities
Capability == {"quote", "metadata", "holdings", "sectorAllocation",
               "countryAllocation", "performance", "historicalData", "search"}

\* the eight public data operations of the factory
Operation == {"getQuote", "getMetadata", "getHoldings", "getSectorAllocation",
              "getCountryAllocation", "getPerformance", "getHistoricalData",
              "search"}

\* capability key each public operation hands to executeWithFallback
OperationCapability ==
  [ getQuote             |-> "quote",
    getMetadata          |-> "metadata",
    getHoldings          |-> "holdings",
    getSectorAllocation  |-> "sectorAllocation",
    getCountryAllocation |-> "countryAllocation",
    getPerformance       |-> "performance",
    getHistoricalData    |-> "historicalData",
    search               |-> "search" ]

\* capabilities that are true for a provider in getProviderCapabilities
BasicCapabilities == {"quote", "metadata", "historicalData", "search"}
FullCapabilities  == BasicCapabilities \cup
                     {"holdings", "sectorAllocation", "countryAllocation"}

\* (variant: the matrix marks performance as supported)
getProviderCapabilitiesPerformance(providerName) ==
  [c \in Capability |-> c \in FullCapabilities \cup {"performance"}]

getProviderCapabilities(providerName) ==
  CASE providerName = "polygon"       -> [c \in Capability |-> c \in BasicCapabilities]
    [] providerName = "finnhub"       -> [c \in Capability |-> c \in FullCapabilities]
    [] providerName = "eodhd"         -> [c \in Capability |-> c \in FullCapabilities]
    [] providerName = "fmp"           -> [c \in Capability |-> c \in FullCapabilities]
    [] providerName = "alpha-vantage" -> [c \in Capability |-> c \in BasicCapabilities]
    [] OTHER                          -> [c \in Capability |-> FALSE]

\* the `name` field of each provider class (what its results carry)
DisplayName ==
  [ p \in ProviderName |->
      CASE p = "polygon"       -> "Polygon.io"
        [] p = "finnhub"       -> "Finnhub"
        [] p = "eodhd"         -> "EODHD"
        [] p = "fmp"           -> "Financial Modeling Prep"
        [] p = "alpha-vantage" -> "Alpha Vantage" ]

(***************************************************************************)
(* Pure helpers.                                                           *)
(***************************************************************************)
\* Array.prototype.join
RECURSIVE Join(_, _)
Join(s, sep) ==
  IF s = <<>> THEN ""
  ELSE IF Len(s) = 1 THEN s[1]
  ELSE s[1] \o sep \o Join(Tail(s), sep)

\* Array.prototype.filter
RECURSIVE Filter(_, _)
Filter(s, keep) ==
  IF s = <<>> THEN <<>>
  ELSE IF s[1] \in keep THEN <<s[1]>> \o Filter(Tail(s), keep)
  ELSE Filter(Tail(s), keep)

\* all sequences over S of length at most n
SeqUpTo(S, n) == UNION { [1..k -> S] : k \in 0..n }

\* the order hard-coded in setDefaultPriority
DefaultOrder == <<"polygon", "eodhd", "fmp", "finnhub", "alpha-vantage">>

\* the credentials field initializeProviders reads for each provider
CredentialKey(p) == IF p = "alpha-vantage" THEN "alphaVantage" ELSE p

\* reading a field of a credentials object: undefined when it is missing
Field(cred, k) == IF k \in DOMAIN cred THEN cred[k] ELSE Undefined

\* (variant: a key that is the empty string registers its provider too)
initializeProvidersAnyKey(cred) ==
  { p \in ProviderName : Field(cred, CredentialKey(p)) # Undefined }

\* providers registered by initializeProviders for the given credentials
initializeProviders(cred) ==
  { p \in ProviderName : Truthy(Field(cred, CredentialKey(p))) }

\* createETFProviderFactory: drop undefined entries, keep the rest
ValidCredentials(env) ==
  [k \in {x \in DOMAIN env : env[x] # Undefined} |-> env[k]]

(***************************************************************************)
(* Results.                                                                *)
(***************************************************************************)
\* the optional `error` field when it is not set
NoError == "<unset>"

\* placeholder for "no response yet"
NoResponse == [success |-> FALSE, provider |-> "-", data |-> "-", error |-> "-"]

\* createSuccessResponse of provider p
createSuccessResponse(p, data) ==
  [success |-> TRUE, provider |-> DisplayName[p], data |-> data, error |-> NoError]

\* (variant: the `error` field is left out of the error response)
createErrorResponseUnset(p, error) ==
  [success |-> FALSE, provider |-> DisplayName[p], data |-> "{}", error |-> NoError]

\* createErrorResponse of provider p
createErrorResponse(p, error) ==
  [success |-> FALSE, provider |-> DisplayName[p], data |-> "{}", error |-> error]

\* (variant: the messages are joined with "," and no space)
FactoryFailureComma(errors) ==
  [success |-> FALSE,
   provider |-> "factory",
   data |-> "null",
   error |-> "All providers failed. Errors: " \o Join(errors, ",")]

\* the synthetic failure built at the end of executeWithFallback
FactoryFailure(errors) ==
  [success |-> FALSE,
   provider |-> "factory",
   data |-> "null",
   error |-> "All providers failed. Errors: " \o Join(errors, "; ")]

\* payloads a provider can deliver
DataValues == {"data1", "data2"}
\* error texts of a provider's domain failure
FailureMessages == {"No data found"}
\* String(error) of what a provider call can reject with
ThrownTexts == {"Error: timeout"}

(***************************************************************************)
(* Inputs.                                                                 *)
(***************************************************************************)
\* symbols (strings as sequences of characters) a caller can pass
SPY == <<"S", "P", "Y">>
Symbols == { SPY, <<>>, <<" ">> }

\* String.prototype.trim
RECURSIVE TrimLeft(_)
TrimLeft(s) == IF s # <<>> /\ s[1] = " " THEN TrimLeft(Tail(s)) ELSE s
RECURSIVE TrimRight(_)
TrimRight(s) ==
  IF s # <<>> /\ s[Len(s)] = " " THEN TrimRight(SubSeq(s, 1, Len(s) - 1)) ELSE s
Trim(s) == TrimRight(TrimLeft(s))

\* lists an operator can hand to setProviderPriority: over the registered
\* names and one name that is not registered (when there is one)
PriorityInputs(reg) ==
  LET others == ProviderName \ reg
      alphabet == reg \cup (IF others = {} THEN {} ELSE {CHOOSE p \in others : TRUE})
  IN SeqUpTo(alphabet, MaxPriorityLen)

(***************************************************************************)
(* State.                                                                  *)
(***************************************************************************)
VARIABLES
  providers,         \* ETFProviderFactory.providers (its key set)
  providerPriority,  \* ETFProviderFactory.providerPriority
  healthStatus,      \* ETFProviderFactory.healthStatus
  chain,             \* the executeWithFallback activations in flight
  healthResults,     \* what the last healthCheck() resolved with
  direct,            \* the last call made on a provider got from getProvider
  factories,         \* the instances createETFProviderFactory has built
  defaultFactory     \* `defaultFactory` of index.ts: 0 (null) or an instance

vars == <<providers, providerPriority, healthStatus, chain,
          healthResults, direct, factories, defaultFactory>>

\* the module state of index.ts
moduleVars == <<factories, defaultFactory>>

\* what a fallback chain and setProviderPriority neither read nor write
aside == <<healthResults, direct, moduleVars>>

\* healthResults before any healthCheck() has resolved
NoResults == [settled |-> FALSE, map |-> <<>>]

\* direct before any direct call
\*   provider, op, symbol   the provider asked for and the call made on it
\*   outcome                "unavailable" (getProvider gave undefined),
\*                          "success", "failure", "threw"
\*   response               what the call returned
\*   requests               how each network request the call issued ended
NoDirect ==
  [ provider |-> "-", op |-> "-", symbol |-> <<>>, outcome |-> "-",
    response |-> NoResponse, requests |-> <<>> ]

\* An activation of executeWithFallback:
\*   pc       "idle" (no call), "await" (suspended at `await method(provider)`),
\*            "done" (the promise is fulfilled with `result`),
\*            "rejected" (the promise is rejected: an exception reached the caller)
\*   op, capability, symbol   the arguments of the call
\*   list, idx                the array the for-of loop iterates and its position
\*   errors                   the local `errors`
\*   invoked                  the providers `method` was called on, in order
\*   outcome, last            how the last awaited call ended, and its response
\*   result                   the value returned to the caller
\*   fetches                  network requests issued by the calls that resolved
\*   this                     the instance of `factories` the method was called
\*                            on, 0 for the factory held in providers,
\*                            providerPriority and healthStatus
\*   seen, met                the health map as it was, and the activations
\*                            that were suspended, when the activation
\*                            started (kept for the properties of
\*                            overlapping requests; the code keeps neither)
Idle ==
  [ pc |-> "idle", op |-> "-", capability |-> "-", symbol |-> <<>>,
    list |-> <<>>, idx |-> 0, errors |-> <<>>, invoked |-> <<>>,
    outcome |-> "-", last |-> NoResponse, result |-> NoResponse,
    fetches |-> 0, this |-> 0, seen |-> <<>>, met |-> {} ]

\* (variant: the capability test of the loop body is missing)
RECURSIVE NextCandidateAnyCapability(_, _, _, _, _)
NextCandidateAnyCapability(list, i, reg, health, capability) ==
  IF i > Len(list) THEN i
  ELSE IF \/ list[i] \notin reg
          \/ ~health[list[i]]
       THEN NextCandidateAnyCapability(list, i + 1, reg, health, capability)
       ELSE i

\* first position j >= i of list whose provider passes the two `continue`
\* tests of the loop body, Len(list) + 1 when there is none
RECURSIVE NextCandidate(_, _, _, _, _)
NextCandidate(list, i, reg, health, capability) ==
  IF i > Len(list) THEN i
  ELSE IF \/ list[i] \notin reg
          \/ ~health[list[i]]
          \/ ~getProviderCapabilities(list[i])[capability]
       THEN NextCandidate(list, i + 1, reg, health, capability)
       ELSE i

\* (variant: a skipped provider leaves an entry in `errors`)
RunLoopRecordsSkips(ch, reg, health) ==
  LET j == NextCandidate(ch.list, ch.idx + 1, reg, health, ch.capability)
      skipped == [i \in 1..(j - ch.idx - 1) |-> ch.list[ch.idx + i] \o ": skipped"]
  IN
    IF j <= Len(ch.list)
    THEN [ch EXCEPT !.pc = "await", !.idx = j,
                    !.errors = @ \o skipped,
                    !.invoked = Append(@, ch.list[j])]
    ELSE [ch EXCEPT !.pc = "done", !.idx = j,
                    !.errors = @ \o skipped,
                    !.result = FactoryFailure(ch.errors \o skipped)]

\* (variant: an empty priority list raises instead of returning a result)
RunLoopNoProvidersError(ch, reg, health) ==
  LET j == NextCandidate(ch.list, ch.idx + 1, reg, health, ch.capability) IN
    IF ch.list = <<>>
    THEN [ch EXCEPT !.pc = "rejected"]
    ELSE IF j <= Len(ch.list)
    THEN [ch EXCEPT !.pc = "await", !.idx = j,
                    !.invoked = Append(@, ch.list[j])]
    ELSE [ch EXCEPT !.pc = "done", !.idx = j,
                    !.result = FactoryFailure(ch.errors)]

\* (variant: the loop tests the health map as it was when the activation
\* started, not the current one)
RunLoopSnapshot(ch, reg, health) ==
  LET old == IF ch.seen = <<>> THEN health ELSE ch.seen
      j == NextCandidate(ch.list, ch.idx + 1, reg, old, ch.capability) IN
    IF j <= Len(ch.list)
    THEN [ch EXCEPT !.pc = "await", !.idx = j,
                    !.invoked = Append(@, ch.list[j])]
    ELSE [ch EXCEPT !.pc = "done", !.idx = j,
                    !.result = FactoryFailure(ch.errors)]

\* (variant: the loop starts the calls of all remaining candidates before it
\* awaits the first of them)
RunLoopParallel(ch, reg, health) ==
  LET j == NextCandidate(ch.list, ch.idx + 1, reg, health, ch.capability)
      rest == { i \in j..Len(ch.list) :
                  /\ ch.list[i] \in reg
                  /\ health[ch.list[i]]
                  /\ getProviderCapabilities(ch.list[i])[ch.capability] }
  IN
    IF j <= Len(ch.list)
    THEN [ch EXCEPT !.pc = "await", !.idx = j,
                    !.invoked = @ \o Filter(SubSeq(ch.list, j, Len(ch.list)),
                                            { ch.list[i] : i \in rest })]
    ELSE [ch EXCEPT !.pc = "done", !.idx = j,
                    !.result = FactoryFailure(ch.errors)]

\* run the loop of activation ch from the element after ch.idx up to the
\* next `await method(provider)` or to the final return
RunLoop(ch, reg, health) ==
  LET j == NextCandidate(ch.list, ch.idx + 1, reg, health, ch.capability) IN
    IF j <= Len(ch.list)
    THEN [ch EXCEPT !.pc = "await", !.idx = j,
                    !.invoked = Append(@, ch.list[j])]
    ELSE [ch EXCEPT !.pc = "done", !.idx = j,
                    !.result = FactoryFailure(ch.errors)]

\* the provider an awaiting activation is suspended on
Current(ch) == ch.list[ch.idx]

(***************************************************************************)
(* Construction.                                                           *)
(***************************************************************************)
setDefaultPriority(reg) == Filter(DefaultOrder, reg)

\* environments the process can be started in
Environments ==
  { env \in [CredentialKeys -> CredentialValues] :
      Cardinality({k \in CredentialKeys : Truthy(env[k])}) <= MaxConfigured }

Init ==
  /\ \E env \in Environments :
       providers = initializeProviders(ValidCredentials(env))
  /\ providerPriority = setDefaultPriority(providers)
  /\ healthStatus = [p \in providers |-> TRUE]
  /\ chain = [c \in Chains |-> Idle]
  /\ healthResults = NoResults
  /\ direct = NoDirect
  /\ factories = <<>>
  /\ defaultFactory = 0

(***************************************************************************)
(* Operations.                                                             *)
(***************************************************************************)
\* (variant: the loop iterates the default order, not this.providerPriority)
CallDefaultOrder(c, op, symbol) ==
  /\ chain[c].pc = "idle"
  /\ direct = NoDirect
  /\ chain' = [chain EXCEPT ![c] =
       RunLoop([Idle EXCEPT !.op = op,
                            !.capability = OperationCapability[op],
                            !.symbol = symbol,
                            !.list = setDefaultPriority(providers)],
               providers, healthStatus)]
  /\ UNCHANGED <<providers, providerPriority, healthStatus, aside>>

\* getQuote .. search: enter executeWithFallback and run to the first await
\* (requests are served one at a time: no direct call is being served)
Call(c, op, symbol) ==
  /\ chain[c].pc = "idle"
  /\ direct = NoDirect
  /\ chain' = [chain EXCEPT ![c] =
       RunLoop([Idle EXCEPT !.op = op,
                            !.capability = OperationCapability[op],
                            !.symbol = symbol,
                            !.list = providerPriority],
               providers, healthStatus)]
  /\ UNCHANGED <<providers, providerPriority, healthStatus, aside>>

\* (variant: the `return result` is missing, the loop goes on)
OnSuccessContinues(c, r, fetched) ==
  /\ chain' = [chain EXCEPT ![c] =
       RunLoop([chain[c] EXCEPT !.outcome = "success", !.last = r, !.result = r,
                                !.fetches = @ + fetched],
               providers, healthStatus)]
  /\ UNCHANGED <<providers, providerPriority, healthStatus, aside>>

\* (variant: a success clears the health penalties)
OnSuccessHeals(c, r, fetched) ==
  /\ chain' = [chain EXCEPT ![c].pc = "done", ![c].outcome = "success",
                            ![c].last = r, ![c].result = r,
                            ![c].fetches = @ + fetched]
  /\ healthStatus' = [p \in providers |-> TRUE]
  /\ UNCHANGED <<providers, providerPriority, aside>>

\* (variant: a success of a provider that has become unhealthy while the
\* call was outstanding is not returned, the loop goes on)
OnSuccessChecksHealth(c, r, fetched) ==
  /\ chain' = [chain EXCEPT ![c] =
       IF healthStatus[Current(chain[c])]
       THEN [chain[c] EXCEPT !.pc = "done", !.outcome = "success",
                             !.last = r, !.result = r, !.fetches = @ + fetched]
       ELSE RunLoop([chain[c] EXCEPT !.outcome = "failure", !.last = r,
                                     !.errors = Append(@, Current(chain[c]) \o ": unhealthy"),
                                     !.fetches = @ + fetched],
                    providers, healthStatus)]
  /\ UNCHANGED <<providers, providerPriority, healthStatus, aside>>

\* `result.success` is true: return the response (fetched: the network
\* requests the provider call issued)
OnSuccess(c, r, fetched) ==
  /\ chain' = [chain EXCEPT ![c].pc = "done", ![c].outcome = "success",
                            ![c].last = r, ![c].result = r,
                            ![c].fetches = @ + fetched]
  /\ UNCHANGED <<providers, providerPriority, healthStatus, aside>>

\* (variant: a domain failure is penalised like an exception)
OnFailurePenalised(c, r, fetched) ==
  LET p == Current(chain[c])
      h == [healthStatus EXCEPT ![p] = FALSE]
  IN /\ healthStatus' = h
     /\ chain' = [chain EXCEPT ![c] =
          RunLoop([chain[c] EXCEPT !.outcome = "failure", !.last = r,
                                   !.errors = Append(@, p \o ": " \o r.error),
                                   !.fetches = @ + fetched],
                  providers, h)]
     /\ UNCHANGED <<providers, providerPriority, aside>>

\* (variant: after a domain failure the same provider is called again)
OnFailureRetries(c, r, fetched) ==
  LET p == Current(chain[c])
  IN /\ chain' = [chain EXCEPT ![c].outcome = "failure", ![c].last = r,
                               ![c].errors = Append(@, p \o ": " \o r.error),
                               ![c].invoked = Append(@, p),
                               ![c].fetches = @ + fetched]
     /\ UNCHANGED <<providers, providerPriority, healthStatus, aside>>

\* `result.success` is false: push "{providerName}: {result.error}", go on
OnFailure(c, r, fetched) ==
  LET p == Current(chain[c])
  IN /\ chain' = [chain EXCEPT ![c] =
          RunLoop([chain[c] EXCEPT !.outcome = "failure", !.last = r,
                                   !.errors = Append(@, p \o ": " \o r.error),
                                   !.fetches = @ + fetched],
                  providers, healthStatus)]
     /\ UNCHANGED <<providers, providerPriority, healthStatus, aside>>

\* (variant: the health write of the catch block is missing)
OnThrowNoPenalty(c, text, fetched) ==
  LET p == Current(chain[c])
  IN /\ chain' = [chain EXCEPT ![c] =
          RunLoop([chain[c] EXCEPT !.outcome = "threw", !.last = NoResponse,
                                   !.errors = Append(@, p \o ": " \o text),
                                   !.fetches = @ + fetched],
                  providers, healthStatus)]
     /\ UNCHANGED <<providers, providerPriority, healthStatus, aside>>

\* (variant: no try/catch around the awaited call)
OnThrowPropagates(c, text, fetched) ==
  /\ chain' = [chain EXCEPT ![c].pc = "rejected", ![c].outcome = "threw"]
  /\ UNCHANGED <<providers, providerPriority, healthStatus, aside>>

\* catch: push "{providerName}: {error}", mark the provider unhealthy, go on
OnThrow(c, text, fetched) ==
  LET p == Current(chain[c])
      h == [healthStatus EXCEPT ![p] = FALSE]
  IN /\ healthStatus' = h
     /\ chain' = [chain EXCEPT ![c] =
          RunLoop([chain[c] EXCEPT !.outcome = "threw", !.last = NoResponse,
                                   !.errors = Append(@, p \o ": " \o text),
                                   !.fetches = @ + fetched],
                  providers, h)]
     /\ UNCHANGED <<providers, providerPriority, aside>>

\* The awaited call of a provider that is only known to implement
\* IETFDataProvider ends in one of the three ways the interface allows.
ResolveSuccess(c, data) ==
  /\ chain[c].pc = "await"
  /\ OnSuccess(c, createSuccessResponse(Current(chain[c]), data), 0)

ResolveFailure(c, msg) ==
  /\ chain[c].pc = "await"
  /\ OnFailure(c, createErrorResponse(Current(chain[c]), msg), 0)

ResolveThrow(c, text) ==
  /\ chain[c].pc = "await"
  /\ OnThrow(c, text, 0)

\* the caller takes the result of a finished activation
Return(c) ==
  /\ chain[c].pc = "done"
  /\ chain' = [chain EXCEPT ![c] = Idle]
  /\ UNCHANGED <<providers, providerPriority, healthStatus, aside>>

\* (variant: the argument is stored as it is, without the filter)
setProviderPriorityUnfiltered(priority) ==
  /\ \A c \in DOMAIN chain : chain[c].pc = "idle"
  /\ direct = NoDirect
  /\ providerPriority' = priority
  /\ UNCHANGED <<providers, healthStatus, chain, aside>>

\* (the operator reorders providers between requests)
setProviderPriority(priority) ==
  /\ \A c \in DOMAIN chain : chain[c].pc = "idle"
  /\ direct = NoDirect
  /\ providerPriority' = Filter(priority, providers)
  /\ UNCHANGED <<providers, healthStatus, chain, aside>>

\* (variant: no provider object has a config)
healthCheckResultsNoConfig(reg) == [p \in reg |-> FALSE]

\* `results` of healthCheck: every provider object has a config, so each
\* callback yields [name, true]
healthCheckResults(reg) == [p \in reg |-> TRUE]

\* The callbacks contain no await: every healthStatus.set runs inside the
\* call itself, and the promise resolves with new Map(results) a few
\* microtask ticks later, with no timer or I/O in between.
healthCheck ==
  LET results == healthCheckResults(providers) IN
  /\ healthStatus' = [p \in providers |-> results[p]]
  /\ healthResults' = [settled |-> TRUE, map |-> results]
  /\ UNCHANGED <<providers, providerPriority, chain, direct, moduleVars>>

\* how a piece of provider code ends: it returns a response or throws
Returns(r, fetched) == [threw |-> FALSE, response |-> r, text |-> "", fetches |-> fetched]
Throws(text, fetched) == [threw |-> TRUE, response |-> NoResponse, text |-> text, fetches |-> fetched]

\* (variant: the lookup leaves out a provider that is unhealthy)
getProviderHealthy(name) ==
  IF name \in providers /\ healthStatus[name] THEN name ELSE Undefined

\* this.providers.get(name): the provider object (here: its name), or undefined
getProvider(name) == IF name \in providers THEN name ELSE Undefined

\* how a settled provider call looks to its caller
OutcomeOf(call) ==
  IF call.threw THEN "threw"
  ELSE IF call.response.success THEN "success" ELSE "failure"

\* (variant: a direct call that throws is penalised like one of a chain)
DirectPenalised(name, op, symbol, net, call) ==
  LET specificProvider == getProvider(name) IN
  /\ \A c \in DOMAIN chain : chain[c].pc = "idle"
  /\ direct = NoDirect
  /\ direct' =
       IF specificProvider = Undefined
       THEN [NoDirect EXCEPT !.provider = name, !.outcome = "unavailable"]
       ELSE [ provider |-> name, op |-> op, symbol |-> symbol,
              outcome |-> OutcomeOf(call), response |-> call.response,
              requests |-> SubSeq(net, 1, call.fetches) ]
  /\ healthStatus' =
       IF specificProvider # Undefined /\ call.threw
       THEN [healthStatus EXCEPT ![name] = FALSE]
       ELSE healthStatus
  /\ UNCHANGED <<providers, providerPriority, chain, healthResults, moduleVars>>

\* A request that names a provider: getProvider(name), then, when there is
\* one, the operation is called on it and awaited (`call`: how it settles,
\* `net`: how the network requests it issues end).
\* The provider objects hold no reference to the factory.
Direct(name, op, symbol, net, call) ==
  LET specificProvider == getProvider(name) IN
  /\ \A c \in DOMAIN chain : chain[c].pc = "idle"
  /\ direct = NoDirect
  /\ direct' =
       IF specificProvider = Undefined
       THEN [NoDirect EXCEPT !.provider = name, !.outcome = "unavailable"]
       ELSE [ provider |-> name, op |-> op, symbol |-> symbol,
              outcome |-> OutcomeOf(call), response |-> call.response,
              requests |-> SubSeq(net, 1, call.fetches) ]
  /\ UNCHANGED <<providers, providerPriority, healthStatus, chain,
                 healthResults, moduleVars>>

\* ways a call of a provider that is only known to implement
\* IETFDataProvider can settle
InterfaceOutcomes(p) ==
  { Returns(createSuccessResponse(p, data), 0) : data \in DataValues } \cup
  { Returns(createErrorResponse(p, msg), 0) : msg \in FailureMessages } \cup
  { Throws(text, 0) : text \in ThrownTexts }

\* names a request can ask for: the registered ones and one that is not
ProviderInputs(reg) ==
  LET others == ProviderName \ reg
  IN reg \cup (IF others = {} THEN {} ELSE {CHOOSE p \in others : TRUE})

\* operations of routes that take a provider name (three of the six): the
\* route calls the operation on the named provider, or on the factory when
\* no provider is named
DirectOperations == {"getMetadata", "getHoldings", "getPerformance"}

DirectCall(name, op, call) == Direct(name, op, SPY, <<>>, call)

\* the request that named a provider is answered
DirectReturn ==
  /\ direct # NoDirect
  /\ direct' = NoDirect
  /\ UNCHANGED <<providers, providerPriority, healthStatus, chain,
                 healthResults, moduleVars>>

Next ==
  \/ \E c \in Chains, op \in Operation : Call(c, op, SPY)
  \/ \E c \in Chains, data \in DataValues : ResolveSuccess(c, data)
  \/ \E c \in Chains, msg \in FailureMessages : ResolveFailure(c, msg)
  \/ \E c \in Chains, text \in ThrownTexts : ResolveThrow(c, text)
  \/ \E c \in Chains : Return(c)
  \/ \E priority \in PriorityInputs(providers) : setProviderPriority(priority)
  \/ healthCheck

Spec == Init /\ [][Next]_vars

\* the call activation c is suspended on settles, in one of the three ways
Settle(c) ==
  \/ \E data \in DataValues : ResolveSuccess(c, data)
  \/ \E msg \in FailureMessages : ResolveFailure(c, msg)
  \/ \E text \in ThrownTexts : ResolveThrow(c, text)

\* operations asked for where termination is examined: one that every
\* provider supports and one that some providers do not
FairOperations == {"getQuote", "getHoldings"}

NextFair ==
  \/ \E c \in Chains, op \in FairOperations : Call(c, op, SPY)
  \/ \E c \in Chains : Settle(c)
  \/ \E c \in Chains : Return(c)
  \/ \E priority \in PriorityInputs(providers) : setProviderPriority(priority)
  \/ healthCheck

\* the same factory when every provider call settles: a call that is
\* outstanding stays so until it settles, so weak fairness says that it does
SpecFair ==
  Init /\ [][NextFair]_vars /\ \A c \in Chains : WF_vars(Settle(c))

\* the same factory, with requests that name a provider as well
NextDirect ==
  \/ \E c \in Chains, op \in DirectOperations : Call(c, op, SPY)
  \/ \E c \in Chains, data \in DataValues : ResolveSuccess(c, data)
  \/ \E c \in Chains, msg \in FailureMessages : ResolveFailure(c, msg)
  \/ \E c \in Chains, text \in ThrownTexts : ResolveThrow(c, text)
  \/ \E c \in Chains : Return(c)
  \/ \E priority \in PriorityInputs(providers) : setProviderPriority(priority)
  \/ healthCheck
  \/ \E name \in ProviderInputs(providers), op \in DirectOperations :
       \E call \in InterfaceOutcomes(name) : DirectCall(name, op, call)
  \/ DirectReturn

SpecDirect == Init /\ [][NextDirect]_vars

TypeOK ==
  /\ providers \subseteq ProviderName
  /\ DOMAIN healthStatus = providers
  /\ providerPriority \in Seq(providers)
  /\ \A c \in Chains :
       /\ chain[c].pc \in {"idle", "await", "done"}
       /\ chain[c].idx \in 0..(Len(chain[c].list) + 1)
       /\ chain[c].pc = "await" => chain[c].idx \in 1..Len(chain[c].list)

(***************************************************************************)
(* The five shipped providers.                                             *)
(*                                                                         *)
(* Every data method has the shape                                         *)
(*   try { validate; await makeRequest(..); convert; return success }      *)
(*   catch (error) { return createErrorResponse(`<prefix>${error}`) }      *)
(* except the methods a provider does not support, which return an error   *)
(* response at once.                                                       *)
(***************************************************************************)
\* how one network request can end: a payload the converter accepts, a
\* how one request ends: a payload with the data asked for, a payload of the
\* expected shape without any data ({} or []), a non-2xx status, a failure
\* of fetch itself (a platform timeout included: makeRequest sets none of
\* its own), a body that is not JSON
NetOutcomes == {"ok", "empty", "http", "network", "malformed"}

\* outcomes of the first and of the second request of one provider call
NetBehaviours == [1..2 -> NetOutcomes]

\* (variant: the test is `!symbol` only, a blank string passes)
BlankNoTrim(str) == str = <<>>

\* `!str || str.trim().length === 0`
Blank(str) == str = <<>> \/ Len(Trim(str)) = 0

\* `${error}` of the Error validateSymbol throws
SymbolRequired == "Error: Symbol is required"

\* makeRequest: the text of what it throws, "" when it returns the payload
makeRequest(outcome) ==
  CASE outcome = "ok"      -> ""
    [] outcome = "empty"   -> ""
    [] outcome = "http"    -> "Error: HTTP 503: Service Unavailable - "
    [] outcome = "network" ->
         "Error: Network request failed: fetch failed. This might be due to "
         \o "network connectivity, certificate issues, or API endpoint problems."
    [] outcome = "malformed" ->
         "SyntaxError: Unexpected token < in JSON at position 0"

\* the message prefix of each method's catch block
CatchPrefix ==
  [ getQuote             |-> "Failed to fetch quote: ",
    getMetadata          |-> "Failed to fetch metadata: ",
    getHoldings          |-> "Failed to fetch holdings: ",
    getSectorAllocation  |-> "Failed to fetch sector allocation: ",
    getCountryAllocation |-> "Failed to fetch country allocation: ",
    getPerformance       |-> "",
    getHistoricalData    |-> "Failed to fetch historical data: ",
    search               |-> "Failed to search: " ]

\* the name each provider uses in its "not implemented" message
ShortName ==
  [ p \in ProviderName |-> IF p = "fmp" THEN "FMP" ELSE DisplayName[p] ]

\* methods that return an error response without doing anything
Unsupported(p, op) ==
  \/ op = "getPerformance"
  \/ /\ p \in {"polygon", "alpha-vantage"}
     /\ op \in {"getHoldings", "getSectorAllocation", "getCountryAllocation"}

UnsupportedMessage(p, op) ==
  CASE op = "getPerformance" ->
         "Performance data calculation not implemented for " \o ShortName[p]
    [] op = "getHoldings" ->
         "Holdings data not available in " \o DisplayName[p]
    [] op = "getSectorAllocation" ->
         "Sector allocation data not available in " \o DisplayName[p]
    [] op = "getCountryAllocation" ->
         "Country allocation data not available in " \o DisplayName[p]

\* data of a success built from a payload without data: the empty list,
\* and the record whose fields are read from absent properties
EmptyList == "[]"
Hollow == "{undefined fields}"

\* the rest of the try block of method op of provider p (other than
\* Finnhub's getQuote and getMetadata) after its one request returned a
\* payload without data
EmptyPayload(p, op) ==
  IF op = "getHistoricalData"
    THEN Returns(createErrorResponse(p, "No historical data found"), 1)
  ELSE IF op = "getQuote" /\ p \in {"fmp", "polygon", "alpha-vantage"}
    THEN Returns(createErrorResponse(p, "No quote data found"), 1)
  ELSE IF op = "getMetadata" /\ p \in {"fmp", "alpha-vantage"}
    THEN Returns(createErrorResponse(p, "No metadata found"), 1)
  ELSE IF op = "getMetadata" /\ p = "eodhd"
    THEN Throws("TypeError: Cannot read properties of undefined (reading 'Code')", 1)
  ELSE IF op = "getMetadata" /\ p = "polygon"
    THEN Throws("TypeError: Cannot read properties of undefined (reading 'ticker')", 1)
  ELSE IF op = "getQuote"
    THEN Returns(createSuccessResponse(p, Hollow), 1)
  ELSE Returns(createSuccessResponse(p, EmptyList), 1)

\* the try block of method op of provider p
TryBody(p, op, symbol, net) ==
  LET ok == createSuccessResponse(p, "data1") IN
  IF op = "search" /\ Blank(symbol)
    THEN Returns(createErrorResponse(p, "Search query is required"), 0)
  ELSE IF op # "search" /\ Blank(symbol)
    THEN Throws(SymbolRequired, 0)
  ELSE IF p = "finnhub" /\ op = "getQuote"
    THEN \* the quote request, then the company profile request
         IF makeRequest(net[1]) # "" THEN Throws(makeRequest(net[1]), 1)
         ELSE IF makeRequest(net[2]) # "" THEN Throws(makeRequest(net[2]), 2)
         ELSE IF "empty" \in {net[1], net[2]}
           THEN Returns(createSuccessResponse(p, Hollow), 2)
         ELSE Returns(ok, 2)
  ELSE IF p = "finnhub" /\ op = "getMetadata"
    THEN \* the ETF profile request; when it fails, or its payload has no
         \* `fund` to read from, the company profile request
         IF net[1] = "ok" THEN Returns(ok, 1)
         ELSE IF makeRequest(net[2]) # "" THEN Throws(makeRequest(net[2]), 2)
         ELSE IF net[2] = "empty"
           THEN Returns(createSuccessResponse(p, Hollow), 2)
         ELSE Returns(ok, 2)
  ELSE IF makeRequest(net[1]) # "" THEN Throws(makeRequest(net[1]), 1)
  ELSE IF net[1] = "empty" THEN EmptyPayload(p, op)
  ELSE Returns(ok, 1)

\* (variant: the methods have no try/catch, what the body throws escapes)
ProviderCallNoCatch(p, op, symbol, net) ==
  IF Unsupported(p, op)
  THEN Returns(createErrorResponse(p, UnsupportedMessage(p, op)), 0)
  ELSE TryBody(p, op, symbol, net)

\* method op of provider p, called with symbol (the query, for search)
ProviderCall(p, op, symbol, net) ==
  IF Unsupported(p, op)
  THEN Returns(createErrorResponse(p, UnsupportedMessage(p, op)), 0)
  ELSE LET body == TryBody(p, op, symbol, net) IN
       IF body.threw
       THEN Returns(createErrorResponse(p, CatchPrefix[op] \o body.text), body.fetches)
       ELSE body

\* most requests method op of provider p issues
MaxRequests(p, op) ==
  IF Unsupported(p, op) THEN 0
  ELSE IF p = "finnhub" /\ op \in {"getQuote", "getMetadata"} THEN 2
  ELSE 1

\* net says how the requests of a call of op on p end: an entry for a
\* request that is never issued is left at "ok"
NetInput(p, op, net) ==
  \A i \in DOMAIN net : i > MaxRequests(p, op) => net[i] = "ok"

\* the awaited call of a shipped provider settles
ResolveShipped(c, net) ==
  /\ chain[c].pc = "await"
  /\ NetInput(Current(chain[c]), chain[c].op, net)
  /\ LET call == ProviderCall(Current(chain[c]), chain[c].op, chain[c].symbol, net) IN
       IF call.threw THEN OnThrow(c, call.text, call.fetches)
       ELSE IF call.response.success THEN OnSuccess(c, call.response, call.fetches)
       ELSE OnFailure(c, call.response, call.fetches)

\* a request that names a shipped provider
DirectShipped(name, op, symbol, net) ==
  /\ NetInput(name, op, net)
  /\ Direct(name, op, symbol, net, ProviderCall(name, op, symbol, net))

NextShipped ==
  \/ \E c \in Chains, op \in Operation, symbol \in Symbols : Call(c, op, symbol)
  \/ \E c \in Chains, net \in NetBehaviours : ResolveShipped(c, net)
  \/ \E c \in Chains : Return(c)
  \/ \E priority \in PriorityInputs(providers) : setProviderPriority(priority)
  \/ healthCheck

\* the factory as it is built: over the five shipped providers
SpecShipped == Init /\ [][NextShipped]_vars

\* the same factory under its default priority list, with requests that
\* name a provider as well
NextShippedDirect ==
  \/ \E c \in Chains, op \in DirectOperations, symbol \in Symbols :
       Call(c, op, symbol)
  \/ \E c \in Chains, net \in NetBehaviours : ResolveShipped(c, net)
  \/ \E c \in Chains : Return(c)
  \/ healthCheck
  \/ \E name \in ProviderInputs(providers), op \in Operation :
       \E symbol \in Symbols, net \in NetBehaviours :
         DirectShipped(name, op, symbol, net)
  \/ DirectReturn

SpecShippedDirect == Init /\ [][NextShippedDirect]_vars

(***************************************************************************)
(* Instances built through index.ts.                                       *)
(*                                                                         *)
(* `factories` holds every instance createETFProviderFactory has built,    *)
(* each with its own three fields; `defaultFactory` is the module variable *)
(* of that name.  An activation of executeWithFallback on one of these     *)
(* instances carries the instance in `this`.                               *)
(***************************************************************************)
\* most instances that are built in one run
MaxInstances == 2

\* new ETFProviderFactory(credentials): the fields after the constructor
ETFProviderFactory(credentials) ==
  LET reg == initializeProviders(credentials) IN
  [ providers        |-> reg,
    providerPriority |-> setDefaultPriority(reg),
    healthStatus     |-> [p \in reg |-> TRUE] ]

\* createETFProviderFactory() when process.env holds env
createETFProviderFactory(env) == ETFProviderFactory(ValidCredentials(env))

\* (variant: a new instance is built by every call)
getDefaultETFProviderFactoryFresh(fs, d, env) ==
  [ factories |-> Append(fs, createETFProviderFactory(env)),
    defaultFactory |-> Len(fs) + 1 ]

\* getDefaultETFProviderFactory(): the instances and the module variable
\* after the call; the instance it returns is the new defaultFactory
getDefaultETFProviderFactory(fs, d, env) ==
  IF d = 0
  THEN [ factories |-> Append(fs, createETFProviderFactory(env)),
         defaultFactory |-> Len(fs) + 1 ]
  ELSE [ factories |-> fs, defaultFactory |-> d ]

\* a caller builds an instance of its own
CreateFactory(env) ==
  /\ Len(factories) < MaxInstances
  /\ factories' = Append(factories, createETFProviderFactory(env))
  /\ UNCHANGED <<providers, providerPriority, healthStatus, chain,
                 healthResults, direct, defaultFactory>>

\* a route: factory = getDefaultETFProviderFactory(); without providers it
\* answers 503, otherwise it calls the operation on the factory
Request(c, env, op, symbol) ==
  /\ chain[c].pc = "idle"
  /\ direct = NoDirect
  /\ Len(factories) < MaxInstances + (IF defaultFactory = 0 THEN 0 ELSE 1)
  /\ LET got == getDefaultETFProviderFactory(factories, defaultFactory, env)
         factory == got.factories[got.defaultFactory]
     IN /\ factories' = got.factories
        /\ defaultFactory' = got.defaultFactory
        /\ chain' =
             IF factory.providers = {}
             THEN chain
             ELSE [chain EXCEPT ![c] =
                    RunLoop([Idle EXCEPT !.this = got.defaultFactory,
                                         !.op = op,
                                         !.capability = OperationCapability[op],
                                         !.symbol = symbol,
                                         !.list = factory.providerPriority],
                            factory.providers, factory.healthStatus)]
  /\ UNCHANGED <<providers, providerPriority, healthStatus, healthResults, direct>>

\* a caller that holds instance i calls an operation on it
InstanceCall(i, c, op, symbol) ==
  /\ chain[c].pc = "idle"
  /\ direct = NoDirect
  /\ chain' = [chain EXCEPT ![c] =
       RunLoop([Idle EXCEPT !.this = i,
                            !.op = op,
                            !.capability = OperationCapability[op],
                            !.symbol = symbol,
                            !.list = factories[i].providerPriority],
               factories[i].providers, factories[i].healthStatus)]
  /\ UNCHANGED <<providers, providerPriority, healthStatus, aside>>

\* (variant: the health map is one static map shared by the instances)
InstanceResolveShared(c, call) ==
  LET i == chain[c].this
      p == Current(chain[c])
      h == [factories[i].healthStatus EXCEPT ![p] = FALSE]
  IN /\ chain[c].pc = "await"
     /\ i # 0
     /\ call.threw
     /\ factories' =
          [ j \in DOMAIN factories |->
              IF p \in factories[j].providers
              THEN [factories[j] EXCEPT !.healthStatus[p] = FALSE]
              ELSE factories[j] ]
     /\ chain' = [chain EXCEPT ![c] =
          RunLoop([chain[c] EXCEPT !.outcome = "threw", !.last = NoResponse,
                                   !.errors = Append(@, p \o ": " \o call.text)],
                  factories[i].providers, h)]
     /\ UNCHANGED <<providers, providerPriority, healthStatus,
                    healthResults, direct, defaultFactory>>

\* the awaited call of an activation on instance chain[c].this settles:
\* the three branches of the loop body, on the fields of that instance
InstanceResolve(c, call) ==
  LET i == chain[c].this
      p == Current(chain[c])
  IN /\ chain[c].pc = "await"
     /\ i # 0
     /\ IF call.threw
        THEN LET h == [factories[i].healthStatus EXCEPT ![p] = FALSE] IN
             /\ factories' = [factories EXCEPT ![i].healthStatus = h]
             /\ chain' = [chain EXCEPT ![c] =
                  RunLoop([chain[c] EXCEPT !.outcome = "threw", !.last = NoResponse,
                                           !.errors = Append(@, p \o ": " \o call.text)],
                          factories[i].providers, h)]
        ELSE IF call.response.success
        THEN /\ chain' = [chain EXCEPT ![c].pc = "done", ![c].outcome = "success",
                                       ![c].last = call.response,
                                       ![c].result = call.response]
             /\ UNCHANGED factories
        ELSE /\ chain' = [chain EXCEPT ![c] =
                  RunLoop([chain[c] EXCEPT !.outcome = "failure",
                                           !.last = call.response,
                                           !.errors = Append(@, p \o ": " \o call.response.error)],
                          factories[i].providers, factories[i].healthStatus)]
             /\ UNCHANGED factories
     /\ UNCHANGED <<providers, providerPriority, healthStatus,
                    healthResults, direct, defaultFactory>>

\* healthCheck() on instance i (the Map it resolves with is not kept)
InstanceHealthCheck(i) ==
  LET results == healthCheckResults(factories[i].providers) IN
  /\ factories' = [factories EXCEPT ![i].healthStatus =
                     [p \in factories[i].providers |-> results[p]]]
  /\ UNCHANGED <<providers, providerPriority, healthStatus, chain,
                 healthResults, direct, defaultFactory>>

\* setProviderPriority(priority) on instance i (between requests)
InstanceSetProviderPriority(i, priority) ==
  /\ \A c \in DOMAIN chain : chain[c].pc = "idle"
  /\ factories' = [factories EXCEPT ![i].providerPriority =
                     Filter(priority, factories[i].providers)]
  /\ UNCHANGED <<providers, providerPriority, healthStatus, chain,
                 healthResults, direct, defaultFactory>>

resetDefaultETFProviderFactory ==
  /\ defaultFactory' = 0
  /\ UNCHANGED <<providers, providerPriority, healthStatus, chain,
                 healthResults, direct, factories>>

\* operations a request of this part asks for
ModuleOperations == {"getQuote"}

\* what process.env holds when an instance is built: no key, or one key
\* (set to the empty string or to a value)
ModuleEnvironments ==
  { env \in [CredentialKeys -> CredentialValues] :
      Cardinality({k \in CredentialKeys : env[k] # Undefined}) <= 1 }

\* lists handed to setProviderPriority of an instance: the empty list and
\* the lists of one name
InstancePriorityInputs == {<<>>} \cup { <<p>> : p \in ProviderName }

\* only the instances of index.ts are used: no other factory is built
InitModule == Init /\ providers = {}

NextModule ==
  \/ \E env \in ModuleEnvironments : CreateFactory(env)
  \/ \E c \in Chains, env \in ModuleEnvironments, op \in ModuleOperations :
       Request(c, env, op, SPY)
  \/ \E i \in DOMAIN factories, c \in Chains, op \in ModuleOperations :
       InstanceCall(i, c, op, SPY)
  \/ \E c \in Chains :
       /\ chain[c].pc = "await"
       /\ \E call \in InterfaceOutcomes(Current(chain[c])) : InstanceResolve(c, call)
  \/ \E c \in Chains : Return(c)
  \/ \E i \in DOMAIN factories : InstanceHealthCheck(i)
  \/ \E i \in DOMAIN factories :
       \E priority \in InstancePriorityInputs :
         InstanceSetProviderPriority(i, priority)
  \/ resetDefaultETFProviderFactory

SpecModule == InitModule /\ [][NextModule]_vars

(***************************************************************************)
(* Overlapping requests on one factory.                                    *)
(*                                                                         *)
(* A route starts several operations of the same factory before it awaits  *)
(* any of them, so several activations of executeWithFallback are          *)
(* suspended at `await method(provider)` at once; the segments between two *)
(* awaits still run one after the other.  setProviderPriority and          *)
(* healthCheck can run between any two segments.                           *)
(***************************************************************************)
\* activations that can be in flight together
ConcurrentChains == {1, 2}

\* the operation the overlapping requests ask for
ConcurrentOperations == {"getQuote"}

\* environments of this part: keys for polygon and eodhd at most
ConcurrentEnvironments ==
  { env \in [CredentialKeys -> CredentialValues] :
      \A k \in CredentialKeys : Truthy(env[k]) => k \in {"polygon", "eodhd"} }

\* lists handed to setProviderPriority in this part: over the registered
\* names, as long as the registry at most
ConcurrentPriorityInputs(reg) == SeqUpTo(reg, Cardinality(reg))

\* payload of a success in this part
ConcurrentData == {"data1"}

InitConcurrent ==
  /\ \E env \in ConcurrentEnvironments :
       providers = initializeProviders(ValidCredentials(env))
  /\ providerPriority = setDefaultPriority(providers)
  /\ healthStatus = [p \in providers |-> TRUE]
  /\ chain = [c \in ConcurrentChains |-> Idle]
  /\ healthResults = NoResults
  /\ direct = NoDirect
  /\ factories = <<>>
  /\ defaultFactory = 0

\* getQuote .. search: enter executeWithFallback and run to the first await
CallConcurrent(c, op, symbol) ==
  /\ chain[c].pc = "idle"
  /\ chain' = [chain EXCEPT ![c] =
       RunLoop([Idle EXCEPT !.op = op,
                            !.capability = OperationCapability[op],
                            !.symbol = symbol,
                            !.list = providerPriority,
                            !.seen = healthStatus,
                            !.met = { d \in DOMAIN chain : chain[d].pc = "await" }],
               providers, healthStatus)]
  /\ UNCHANGED <<providers, providerPriority, healthStatus, aside>>

\* (variant: the stored array is changed in place, so a loop that is
\* suspended goes on with the entries of the new list)
setProviderPriorityInPlace(priority) ==
  LET new == Filter(priority, providers) IN
  /\ providerPriority' = new
  /\ chain' = [c \in DOMAIN chain |->
       IF chain[c].pc = "await"
       THEN [chain[c] EXCEPT !.list =
               SubSeq(@, 1, chain[c].idx) \o SubSeq(new, chain[c].idx + 1, Len(new))]
       ELSE chain[c]]
  /\ UNCHANGED <<providers, healthStatus, aside>>

\* setProviderPriority(priority) at any time: this.providerPriority is
\* assigned a new array, the array a suspended loop iterates is untouched
setProviderPriorityInFlight(priority) ==
  /\ providerPriority' = Filter(priority, providers)
  /\ UNCHANGED <<providers, healthStatus, chain, aside>>

\* the caller that started the operations together takes their results
\* when all of them have settled
ReturnSettled ==
  /\ \A c \in DOMAIN chain : chain[c].pc \in {"idle", "done"}
  /\ \E c \in DOMAIN chain : chain[c].pc = "done"
  /\ chain' = [c \in DOMAIN chain |-> Idle]
  /\ UNCHANGED <<providers, providerPriority, healthStatus, aside>>

NextConcurrent ==
  \/ \E c \in ConcurrentChains, op \in ConcurrentOperations :
       CallConcurrent(c, op, SPY)
  \/ \E c \in ConcurrentChains, data \in ConcurrentData : ResolveSuccess(c, data)
  \/ \E c \in ConcurrentChains, msg \in FailureMessages : ResolveFailure(c, msg)
  \/ \E c \in ConcurrentChains, text \in ThrownTexts : ResolveThrow(c, text)
  \/ ReturnSettled
  \/ \E priority \in ConcurrentPriorityInputs(providers) :
       setProviderPriorityInFlight(priority)
  \/ healthCheck

SpecConcurrent == InitConcurrent /\ [][NextConcurrent]_vars

(***************************************************************************)
(* One request run twice.                                                  *)
(*                                                                         *)
(* Two instances are built from the same environment and are kept in the   *)
(* same state between requests; the same operation is started on both, one *)
(* activation on each, and the two activations advance in any order.  The  *)
(* providers answer the second run as they answered the first: the k-th    *)
(* call of a run, made to provider p, settles as the k-th call of the      *)
(* other run did if that call was made to p too.                           *)
(***************************************************************************)
\* the two runs; run c works on instance c
TwinChains == {1, 2}

\* the other run
Twin(c) == 3 - c

\* lists handed to setProviderPriority in this part: over the registered
\* names, repetitions included
TwinPriorityInputs(reg) == SeqUpTo(reg, 3)

\* the ways the k-th call of activation ch can have settled, as far as the
\* activation shows them: the call left the entry errors[k], or it was the
\* success that was returned; empty while the call is outstanding
SettledCalls(ch, k) ==
  LET p == ch.invoked[k] IN
  { call \in InterfaceOutcomes(p) :
      IF k <= Len(ch.errors)
      THEN ch.errors[k] = p \o ": " \o (IF call.threw THEN call.text
                                        ELSE call.response.error)
      ELSE /\ ch.pc = "done"
           /\ ~call.threw
           /\ call.response = ch.result }

InitTwin ==
  /\ providers = {}
  /\ providerPriority = <<>>
  /\ healthStatus = <<>>
  /\ healthResults = NoResults
  /\ direct = NoDirect
  /\ defaultFactory = 0
  /\ \E env \in ConcurrentEnvironments :
       factories = <<createETFProviderFactory(env), createETFProviderFactory(env)>>
  /\ chain = [c \in TwinChains |-> Idle]

\* the same operation is called on both instances
TwinCall(op, symbol) ==
  /\ \A c \in TwinChains : chain[c].pc = "idle"
  /\ chain' = [c \in TwinChains |->
       RunLoop([Idle EXCEPT !.this = c,
                            !.op = op,
                            !.capability = OperationCapability[op],
                            !.symbol = symbol,
                            !.list = factories[c].providerPriority,
                            !.seen = factories[c].healthStatus],
               factories[c].providers, factories[c].healthStatus)]
  /\ UNCHANGED <<providers, providerPriority, healthStatus, aside>>

\* the awaited call of run c settles, as the same call of the other run did
TwinResolve(c, call) ==
  LET k == Len(chain[c].invoked)
      other == chain[Twin(c)]
  IN /\ chain[c].pc = "await"
     /\ call \in InterfaceOutcomes(Current(chain[c]))
     /\ (/\ k <= Len(other.invoked)
         /\ other.invoked[k] = Current(chain[c])
         /\ SettledCalls(other, k) # {}) => call \in SettledCalls(other, k)
     /\ InstanceResolve(c, call)

\* both results are taken
TwinReturn ==
  /\ \A c \in TwinChains : chain[c].pc = "done"
  /\ chain' = [c \in TwinChains |-> Idle]
  /\ UNCHANGED <<providers, providerPriority, healthStatus, aside>>

\* between two requests: setProviderPriority(priority) on both instances
TwinSetProviderPriority(priority) ==
  /\ \A c \in TwinChains : chain[c].pc = "idle"
  /\ factories' = [i \in DOMAIN factories |->
       [factories[i] EXCEPT !.providerPriority =
          Filter(priority, factories[i].providers)]]
  /\ UNCHANGED <<providers, providerPriority, healthStatus, chain,
                 healthResults, direct, defaultFactory>>

\* between two requests: healthCheck() on both instances
TwinHealthCheck ==
  /\ \A c \in TwinChains : chain[c].pc = "idle"
  /\ factories' = [i \in DOMAIN factories |->
       [factories[i] EXCEPT !.healthStatus =
          healthCheckResults(factories[i].providers)]]
  /\ UNCHANGED <<providers, providerPriority, healthStatus, chain,
                 healthResults, direct, defaultFactory>>

NextTwin ==
  \/ \E op \in ConcurrentOperations : TwinCall(op, SPY)
  \/ \E c \in TwinChains :
       /\ chain[c].pc = "await"
       /\ \E call \in InterfaceOutcomes(Current(chain[c])) : TwinResolve(c, call)
  \/ TwinReturn
  \/ \E priority \in TwinPriorityInputs({"polygon", "eodhd"}) :
       TwinSetProviderPriority(priority)
  \/ TwinHealthCheck

SpecTwin == InitTwin /\ [][NextTwin]_vars

(***************************************************************************)
(* Vocabulary of the properties.                                           *)
(***************************************************************************)
\* a is a subsequence of b (not necessarily contiguous)
RECURSIVE IsSubseq(_, _)
IsSubseq(a, b) ==
  IF a = <<>> THEN TRUE
  ELSE IF b = <<>> THEN FALSE
  ELSE IF a[1] = b[1] THEN IsSubseq(Tail(a), Tail(b))
  ELSE IsSubseq(a, Tail(b))

\* provider p may be tried for capability cap under health map h
Eligible(p, cap, h) ==
  /\ p \in providers
  /\ h[p]
  /\ getProviderCapabilities(p)[cap]

\* texts an `errors` entry of provider p can have
FailureEntries(p) == { p \o ": " \o m : m \in FailureMessages }
ThrowEntries(p) == { p \o ": " \o t : t \in ThrownTexts }

\* the result an exhausted chain returns: a failure tagged "factory"
AggregateExhausted(r) == ~r.success /\ r.provider = "factory"

\* the string is empty or made of spaces only
EmptyOrWhitespace(str) == \A i \in 1..Len(str) : str[i] = " "

\* the error of a provider method that is handed a blank symbol
BlankSymbolError(op) ==
  IF op = "search" THEN "Search query is required"
  ELSE CatchPrefix[op] \o "Error: Symbol is required"

\* `${error}` of what makeRequest throws when fetch itself fails
NetworkFailureText ==
  "Error: Network request failed: fetch failed. This might be due to "
  \o "network connectivity, certificate issues, or API endpoint problems."

\* the last entry of a non-empty list
Last(s) == s[Len(s)]

\* the provider whose call was the last to settle in activation ch
LastSettled(ch) ==
  IF ch.pc = "await" THEN ch.invoked[Len(ch.invoked) - 1] ELSE Last(ch.invoked)

\* r is a result as provider p returns it: it names p; a failure has an
\* error text; a success has the data the provider built
ResultOfProvider(r, p) ==
  /\ r.provider = DisplayName[p]
  /\ r.provider # "factory"
  /\ ~r.success => r.error \notin {NoError, "", "-"}
  /\ r.success => r.data \in {"data1", EmptyList, Hollow}

\* provider calls activation ch has started and that have not settled yet:
\* every settled call left an entry in `errors` or was the success returned
InFlight(ch) ==
  Len(ch.invoked) - Len(ch.errors) - (IF ch.result.success THEN 1 ELSE 0)

\* the request failed: fetch rejected, the status was not 2xx, or the body
\* could not be parsed
RequestFailed(outcome) == outcome \in {"network", "http", "malformed"}

\* the call activation c awaits settles in this step, and what it leaves in
\* `errors` is the network-level failure of fetch (as the provider reports
\* it, or as thrown)
NetworkFailureStep(c) ==
  /\ chain[c].pc = "await"
  /\ Len(chain'[c].errors) = Len(chain[c].errors) + 1
  /\ Last(chain'[c].errors) \in
       { Current(chain[c]) \o ": " \o CatchPrefix[chain[c].op] \o NetworkFailureText,
         Current(chain[c]) \o ": " \o NetworkFailureText }

\* after its awaited call settled, activation c goes on with the next
\* eligible candidate, or returns the factory failure when there is none
GoesOn(c) ==
  LET ch == chain[c]
      later == { j \in (ch.idx + 1)..Len(ch.list) :
                   Eligible(ch.list[j], ch.capability, healthStatus') }
  IN IF later = {}
     THEN /\ chain'[c].pc = "done"
          /\ ~chain'[c].result.success
          /\ chain'[c].result.provider = "factory"
     ELSE /\ chain'[c].pc = "await"
          /\ chain'[c].idx \in later
          /\ \A j \in later : chain'[c].idx <= j

\* how often x occurs in the list s
Count(s, x) == Cardinality({ i \in 1..Len(s) : s[i] = x })

\* the list `kept` is the list `all` without its entries outside `keep`,
\* in the order and with the repetitions of `all`
IsSelection(kept, all, keep) ==
  /\ IsSubseq(kept, all)
  /\ \A i \in 1..Len(kept) : kept[i] \in keep
  /\ \A x \in keep : Count(kept, x) = Count(all, x)

\* steps of activation c
CallStep(c) == chain[c].pc = "idle" /\ chain'[c].pc # "idle"
ResolveStep(c, outcome) ==
  /\ chain[c].pc = "await"
  /\ chain'[c] # chain[c]
  /\ chain'[c].outcome = outcome
\* activation c calls `method` on provider p in this step
Invokes(c, p) ==
  /\ chain'[c].pc = "await"
  /\ Current(chain'[c]) = p
  /\ chain[c].pc # "await" \/ chain'[c].idx # chain[c].idx

(***************************************************************************)
(* C1. The providers one fallback chain invokes are registered and are     *)
(* invoked in the order of the priority list: the sequence of invoked      *)
(* providers is a subsequence of the factory's priority list.              *)
(***************************************************************************)
C1_InvokedInPriorityOrder ==
  \A c \in DOMAIN chain :
    chain[c].pc # "idle" =>
      /\ IsSubseq(chain[c].invoked, providerPriority)
      /\ \A i \in 1..Len(chain[c].invoked) : chain[c].invoked[i] \in providers

\* a chain has tried two different providers under a custom order
C1_Witness ==
  \E c \in DOMAIN chain :
    /\ Len(chain[c].invoked) = 2
    /\ chain[c].invoked[1] # chain[c].invoked[2]
    /\ providerPriority # setDefaultPriority(providers)

(***************************************************************************)
(* C2. A provider the capability matrix marks incapable of an operation    *)
(* is never invoked by a request for that operation.                       *)
(***************************************************************************)
C2_IncapableNeverInvoked ==
  \A c \in DOMAIN chain :
    \A i \in 1..Len(chain[c].invoked) :
      getProviderCapabilities(chain[c].invoked[i])[OperationCapability[chain[c].op]]

\* getHoldings went past a healthy polygon at the head of the list
C2_Witness ==
  \E c \in DOMAIN chain :
    /\ chain[c].op = "getHoldings"
    /\ chain[c].invoked # <<>>
    /\ chain[c].list[1] = "polygon"
    /\ healthStatus["polygon"]

(***************************************************************************)
(* C3. When a provider call raises, the provider is unhealthy as soon as   *)
(* the chain resumes; an unhealthy provider stays unhealthy and is invoked *)
(* by no chain (whatever the operation) in every step other than           *)
(* healthCheck().                                                          *)
(***************************************************************************)
C3_ThrowMarksUnhealthyAndSkips ==
  [][ /\ \A c \in DOMAIN chain :
           ResolveStep(c, "threw") => ~healthStatus'[Current(chain[c])]
      /\ ~healthCheck =>
           \A p \in providers :
             ~healthStatus[p] =>
               /\ ~healthStatus'[p]
               /\ \A c \in DOMAIN chain : ~Invokes(c, p)
    ]_vars

\* a later chain went past an unhealthy capable provider and tried the next
C3_Witness ==
  \E c \in DOMAIN chain :
    /\ chain[c].pc = "await"
    /\ chain[c].errors = <<>>
    /\ chain[c].idx > 1
    /\ ~healthStatus[chain[c].list[1]]
    /\ getProviderCapabilities(chain[c].list[1])[chain[c].capability]

(***************************************************************************)
(* C4. A provider call that returns success == false leaves every entry    *)
(* of the health map unchanged.                                            *)
(***************************************************************************)
C4_DomainFailureKeepsHealth ==
  [][ \A c \in DOMAIN chain :
        ResolveStep(c, "failure") => healthStatus' = healthStatus ]_vars

\* a chain has just taken a domain failure and everybody is still healthy
C4_Witness ==
  \E c \in DOMAIN chain :
    /\ chain[c].outcome = "failure"
    /\ ~chain[c].last.success
    /\ chain[c].errors # <<>>
    /\ \A p \in providers : healthStatus[p]

(***************************************************************************)
(* C5. First success wins: once a candidate returned success == true the   *)
(* chain is finished, its result is that provider's response unchanged,    *)
(* and the succeeding provider is the last one invoked.                    *)
(***************************************************************************)
C5_FirstSuccessWins ==
  \A c \in DOMAIN chain :
    chain[c].outcome = "success" =>
      /\ chain[c].pc = "done"
      /\ chain[c].result = chain[c].last
      /\ chain[c].result.success
      /\ chain[c].result.provider = DisplayName[Current(chain[c])]
      /\ chain[c].invoked[Len(chain[c].invoked)] = Current(chain[c])
      /\ Len(chain[c].invoked) = Len(chain[c].errors) + 1

\* a success was returned while a healthy capable provider came later
C5_Witness ==
  \E c \in DOMAIN chain :
    /\ chain[c].outcome = "success"
    /\ chain[c].idx < Len(chain[c].list)
    /\ Eligible(chain[c].list[chain[c].idx + 1], chain[c].capability, healthStatus)

C8_NoEligibleProvider ==
  [][ \A c \in DOMAIN chain :
        ( /\ CallStep(c)
          /\ \A i \in 1..Len(providerPriority) :
               ~Eligible(providerPriority[i], chain'[c].capability, healthStatus) )
        => /\ chain'[c].pc = "done"
           /\ chain'[c].invoked = <<>>
           /\ chain'[c].errors = <<>>
           /\ chain'[c].result =
                [success |-> FALSE, provider |-> "factory", data |-> "null",
                 error |-> "All providers failed. Errors: "]
    ]_vars

\* a request found a registered, capable provider unhealthy and nobody else
C8_Witness ==
  \E c \in DOMAIN chain :
    /\ chain[c].pc = "done"
    /\ chain[c].invoked = <<>>
    /\ chain[c].list # <<>>
    /\ \E i \in 1..Len(chain[c].list) :
         getProviderCapabilities(chain[c].list[i])[chain[c].capability]

(***************************************************************************)
(* C9 (as stated). With an empty registry a request makes no provider call *)
(* and returns a failure of its own kind, not the factory failure an       *)
(* exhausted chain returns.                                                *)
(***************************************************************************)
C9_EmptyRegistryOwnError ==
  \A c \in DOMAIN chain :
    (providers = {} /\ chain[c].pc # "idle") =>
      /\ chain[c].invoked = <<>>
      /\ ~AggregateExhausted(chain[c].result)

(***************************************************************************)
(* C9 (amended). With an empty registry a request never suspends, makes no *)
(* provider call and returns the factory failure with no provider message, *)
(* the very result of a chain whose candidates were all skipped.           *)
(***************************************************************************)
C9_EmptyRegistryFactoryFailure ==
  \A c \in DOMAIN chain :
    (providers = {} /\ chain[c].pc # "idle") =>
      /\ chain[c].pc = "done"
      /\ chain[c].invoked = <<>>
      /\ chain[c].fetches = 0
      /\ chain[c].result =
           [success |-> FALSE, provider |-> "factory", data |-> "null",
            error |-> "All providers failed. Errors: "]

\* a request was answered by a factory without providers
C9_Witness ==
  \E c \in DOMAIN chain :
    /\ providers = {}
    /\ providerPriority = <<>>
    /\ chain[c].pc = "done"
    /\ chain[c].op = "getQuote"

(***************************************************************************)
(* C10 (as stated). A request with an empty or whitespace-only symbol is   *)
(* answered at once, without any provider being invoked and with no error  *)
(* entry attributed to a provider.                                         *)
(***************************************************************************)
C10_BlankSymbolFailsFast ==
  \A c \in DOMAIN chain :
    (chain[c].pc # "idle" /\ EmptyOrWhitespace(chain[c].symbol)) =>
      /\ chain[c].pc = "done"
      /\ chain[c].invoked = <<>>
      /\ chain[c].errors = <<>>

(***************************************************************************)
(* C10 (amended). The factory does not validate the symbol: a request with *)
(* an empty or whitespace-only symbol walks the priority list and invokes  *)
(* every capable provider in order; each provider refuses the symbol       *)
(* without a network request and returns success == false, no health entry *)
(* changes, and the result is the factory failure whose entries attribute  *)
(* "Symbol is required" ("Search query is required" for search) to each    *)
(* invoked provider.                                                       *)
(***************************************************************************)
C10_BlankSymbolRunsChain ==
  \A c \in DOMAIN chain :
    (chain[c].pc # "idle" /\ EmptyOrWhitespace(chain[c].symbol)) =>
      LET ch == chain[c]
          capable == { p \in providers :
                         getProviderCapabilities(p)[OperationCapability[ch.op]] }
      IN /\ ch.fetches = 0
         /\ ch.outcome \in {"-", "failure"}
         /\ \A p \in providers : healthStatus[p]
         /\ \A i \in 1..Len(ch.errors) :
              ch.errors[i] = ch.invoked[i] \o ": " \o BlankSymbolError(ch.op)
         /\ ch.pc = "await" => ch.invoked = Filter(SubSeq(ch.list, 1, ch.idx), capable)
         /\ ch.pc = "done" =>
              /\ ch.invoked = Filter(ch.list, capable)
              /\ Len(ch.errors) = Len(ch.invoked)
              /\ ch.result = [success |-> FALSE, provider |-> "factory", data |-> "null",
                              error |-> "All providers failed. Errors: "
                                        \o Join(ch.errors, "; ")]

\* a whitespace-only symbol went through two providers
C10_Witness ==
  \E c \in DOMAIN chain :
    /\ chain[c].pc = "done"
    /\ chain[c].symbol = <<" ">>
    /\ Len(chain[c].invoked) = 2
    /\ chain[c].invoked[1] # chain[c].invoked[2]

(***************************************************************************)
(* C11. The only step that takes a provider from unhealthy to healthy is   *)
(* healthCheck(): no step of a fallback chain (a success of another        *)
(* provider included) and no setProviderPriority does it.                  *)
(***************************************************************************)
C11_OnlyHealthCheckHeals ==
  [][ (\E p \in providers : ~healthStatus[p] /\ healthStatus'[p])
        => /\ healthCheck
           /\ \A c \in DOMAIN chain : ~ResolveStep(c, "success") /\ ~CallStep(c)
    ]_vars

\* a later chain got a success from another provider, under a replaced
\* priority list, and the provider that threw before is still unhealthy
C11_Witness ==
  \E c \in DOMAIN chain :
    /\ chain[c].outcome = "success"
    /\ chain[c].errors = <<>>
    /\ providerPriority # setDefaultPriority(providers)
    /\ \E p \in providers :
         /\ ~healthStatus[p]
         /\ getProviderCapabilities(p)[chain[c].capability]

(***************************************************************************)
(* C12. healthCheck() resolves with a map that has exactly one entry per   *)
(* registered provider, and the health map holds the same values: every    *)
(* registered provider, one that a throw had marked unhealthy included, is *)
(* healthy when it completes.  A request made while every provider is      *)
(* healthy then tries the first capable provider of the priority list,     *)
(* whatever was penalised before.                                          *)
(***************************************************************************)
C12_HealthCheckRestores ==
  [][ /\ ( \/ healthResults' # healthResults
           \/ \E p \in providers : ~healthStatus[p] /\ healthStatus'[p] )
         => /\ healthResults'.settled
            /\ DOMAIN healthResults'.map = providers
            /\ healthStatus' = healthResults'.map
            /\ \A p \in providers : healthStatus'[p]
      /\ \A c \in DOMAIN chain :
           (CallStep(c) /\ \A p \in providers : healthStatus[p]) =>
             LET capable == { i \in 1..Len(providerPriority) :
                                getProviderCapabilities(providerPriority[i])
                                  [chain'[c].capability] }
             IN IF capable = {}
                THEN chain'[c].pc = "done"
                ELSE /\ chain'[c].pc = "await"
                     /\ chain'[c].idx \in capable
                     /\ \A i \in capable : chain'[c].idx <= i
    ]_vars

\* the provider whose throw this chain recorded is healthy again, and the
\* health map is what healthCheck() returned
C12_Witness ==
  \E c \in DOMAIN chain :
    /\ chain[c].pc = "await"
    /\ chain[c].errors # <<>>
    /\ chain[c].errors[1] \in ThrowEntries(chain[c].invoked[1])
    /\ healthResults.settled
    /\ healthStatus = healthResults.map
    /\ healthStatus[chain[c].invoked[1]]

C14_EveryRequestFailureIsFailure ==
  /\ \A c \in DOMAIN chain : chain[c].outcome # "threw"
  /\ direct.outcome # "threw"
  /\ direct.outcome \in {"success", "failure"} =>
       /\ (\E i \in 1..Len(direct.requests) : RequestFailed(direct.requests[i]))
            => direct.outcome = "failure"
       /\ ~getProviderCapabilities(direct.provider)[OperationCapability[direct.op]]
            => direct.outcome = "failure"
       /\ direct.outcome = "failure" =>
            /\ ~direct.response.success
            /\ direct.response.error \notin {NoError, ""}

(***************************************************************************)
(* C14 (amended). No operation of a shipped provider throws.  A call whose *)
(* last network request failed (at the network level, with a non-2xx       *)
(* status, with an unparseable body) returns success == false with an      *)
(* error that names the operation and the cause; an operation the provider *)
(* does not support returns success == false without any request.  A       *)
(* failed request that is not the last one is the ETF-profile request of   *)
(* Finnhub's getMetadata, which is answered by a second request.           *)
(***************************************************************************)
C14_ProvidersNeverThrow ==
  /\ \A c \in DOMAIN chain : chain[c].outcome # "threw"
  /\ direct.outcome # "threw"
  /\ direct.outcome \in {"success", "failure"} =>
       LET n == Len(direct.requests) IN
       /\ (n > 0 /\ RequestFailed(direct.requests[n])) =>
            /\ direct.outcome = "failure"
            /\ direct.response.error =
                 CatchPrefix[direct.op] \o makeRequest(direct.requests[n])
       /\ (\E i \in 1..(n - 1) : RequestFailed(direct.requests[i])) =>
            /\ direct.provider = "finnhub"
            /\ direct.op = "getMetadata"
       /\ ~getProviderCapabilities(direct.provider)[OperationCapability[direct.op]] =>
            /\ direct.outcome = "failure"
            /\ n = 0
       /\ direct.outcome = "failure" =>
            /\ ~direct.response.success
            /\ direct.response.provider = DisplayName[direct.provider]
            /\ direct.response.error \notin {NoError, ""}

\* a provider returned a failure for a body that is not JSON
C14_Witness ==
  /\ direct.outcome = "failure"
  /\ direct.requests = <<"malformed">>
  /\ direct.op = "getHoldings"
  /\ ~direct.response.success

(***************************************************************************)
(* C15. An operation of a shipped provider that is called with an empty or *)
(* whitespace-only symbol (search: query) returns success == false with an *)
(* error text, issues no network request and does not throw, whether the   *)
(* provider is called by name or by a fallback chain.                      *)
(***************************************************************************)
C15_BlankSymbolRefused ==
  /\ (direct.outcome \notin {"-", "unavailable"} /\ EmptyOrWhitespace(direct.symbol)) =>
       /\ direct.outcome = "failure"
       /\ ~direct.response.success
       /\ direct.response.error \notin {NoError, ""}
       /\ direct.requests = <<>>
  /\ \A c \in DOMAIN chain :
       (chain[c].pc # "idle" /\ EmptyOrWhitespace(chain[c].symbol)) =>
         /\ chain[c].outcome \in {"-", "failure"}
         /\ chain[c].fetches = 0
         /\ chain[c].outcome = "failure" =>
              /\ ~chain[c].last.success
              /\ chain[c].last.error \notin {NoError, ""}

\* polygon refused a quote request for a whitespace-only symbol
C15_Witness ==
  /\ direct.provider = "polygon"
  /\ direct.op = "getQuote"
  /\ direct.symbol = <<" ">>
  /\ direct.outcome = "failure"
  /\ direct.response.error = "Failed to fetch quote: Error: Symbol is required"

(***************************************************************************)
(* C16. The priority list starts as polygon, eodhd, fmp, finnhub,          *)
(* alpha-vantage without the providers that are not registered;            *)
(* setProviderPriority(L) replaces it by L without the names that are not  *)
(* registered, in L's order; and at all times every name of the priority   *)
(* list is a registered provider.                                          *)
(***************************************************************************)
C16_PriorityListRegistered ==
  /\ IsSelection(providerPriority,
                 <<"polygon", "eodhd", "fmp", "finnhub", "alpha-vantage">>,
                 providers)
  /\ [](\A i \in 1..Len(providerPriority) : providerPriority[i] \in providers)
  /\ [][ /\ \A L \in PriorityInputs(providers) :
              setProviderPriority(L) => IsSelection(providerPriority', L, providers)
         /\ providerPriority' # providerPriority =>
              \E L \in PriorityInputs(providers) : setProviderPriority(L)
       ]_vars

\* the list was replaced by one that reverses the default order
C16_Witness ==
  /\ Len(providerPriority) = 2
  /\ providerPriority[1] # providerPriority[2]
  /\ providerPriority # setDefaultPriority(providers)
  /\ \A p \in providers : healthStatus[p]

(***************************************************************************)
(* C17. An instance registers exactly the providers whose API key is       *)
(* present and not the empty string when it is built, and each of them     *)
(* starts healthy; at all times the health map of an instance has an entry *)
(* for exactly its registered providers; and no step changes the set of    *)
(* registered providers of an instance that exists.                        *)
(***************************************************************************)
C17_RegistryFixedAtConstruction ==
  /\ [](\A i \in DOMAIN factories :
          DOMAIN factories[i].healthStatus = factories[i].providers)
  /\ [][ /\ \A i \in DOMAIN factories :
              /\ i \in DOMAIN factories'
              /\ factories'[i].providers = factories[i].providers
         /\ Len(factories') # Len(factories) =>
              LET built == factories'[Len(factories')] IN
              /\ Len(factories') = Len(factories) + 1
              /\ \A p \in built.providers : built.healthStatus[p]
              /\ \A env \in ModuleEnvironments :
                   ( \/ CreateFactory(env)
                     \/ \E c \in Chains, op \in ModuleOperations :
                          Request(c, env, op, SPY) )
                   => built.providers =
                        { p \in ProviderName :
                            env[IF p = "alpha-vantage" THEN "alphaVantage" ELSE p]
                              \notin {Undefined, ""} }
       ]_vars

\* one instance was built without a usable key, another with the key of
\* alpha-vantage, which has been penalised since
C17_Witness ==
  \E i, j \in DOMAIN factories :
    /\ factories[i].providers = {}
    /\ factories[j].providers = {"alpha-vantage"}
    /\ ~factories[j].healthStatus["alpha-vantage"]

(***************************************************************************)
(* C18. Instances share no state: a step changes the health map or the     *)
(* priority list of at most one instance, and only as a health penalty of  *)
(* a chain running on that instance, a healthCheck() on it or a            *)
(* setProviderPriority on it.  getDefaultETFProviderFactory() returns the  *)
(* instance held in defaultFactory, as it is, while there is one; only     *)
(* resetDefaultETFProviderFactory() clears defaultFactory, and the call    *)
(* after it builds a new instance whose providers are all healthy.         *)
(***************************************************************************)
C18_InstancesShareNoState ==
  [][ /\ \A j \in DOMAIN factories :
           factories'[j] # factories[j] =>
             /\ \A k \in DOMAIN factories : factories'[k] # factories[k] => k = j
             /\ \/ \E c \in DOMAIN chain :
                     /\ chain[c].this = j
                     /\ ResolveStep(c, "threw")
                     /\ factories'[j].providerPriority = factories[j].providerPriority
                \/ InstanceHealthCheck(j)
                \/ \E L \in InstancePriorityInputs : InstanceSetProviderPriority(j, L)
      /\ \A c \in DOMAIN chain :
           (CallStep(c) /\ defaultFactory # 0 /\
              \E env \in ModuleEnvironments, op \in ModuleOperations :
                Request(c, env, op, SPY))
           => /\ factories' = factories
              /\ defaultFactory' = defaultFactory
              /\ chain'[c].this = defaultFactory
      /\ defaultFactory' # defaultFactory =>
           \/ defaultFactory' = 0 /\ resetDefaultETFProviderFactory
           \/ /\ defaultFactory = 0
              /\ defaultFactory' = Len(factories) + 1
              /\ Len(factories') = Len(factories) + 1
              /\ \A p \in factories'[defaultFactory'].providers :
                   factories'[defaultFactory'].healthStatus[p]
    ]_vars

\* the default instance built after a reset has answered a request with
\* provider p healthy, while the earlier instance still holds p's penalty
C18_Witness ==
  /\ Len(factories) = 2
  /\ defaultFactory = 2
  /\ \E p \in factories[1].providers \cap factories[2].providers :
       /\ ~factories[1].healthStatus[p]
       /\ factories[2].healthStatus[p]
  /\ factories[1].providerPriority # factories[2].providerPriority
  /\ \E c \in DOMAIN chain :
       /\ chain[c].this = 2
       /\ chain[c].outcome = "success"

(***************************************************************************)
(* C19. getProvider(name) is direct access without fallback: a request     *)
(* that names a provider reaches it exactly when the name is registered,   *)
(* whatever the provider's health and capabilities, and is turned away     *)
(* when the name is not registered; the operation called on the provider,  *)
(* whether it succeeds, fails or throws, leaves the factory's health map,  *)
(* priority list and registry as they were.                                *)
(***************************************************************************)
C19_DirectAccessLeavesFactoryAlone ==
  /\ [](direct # NoDirect =>
          /\ (direct.outcome = "unavailable") = (direct.provider \notin providers)
          /\ direct.provider \in providers =>
               direct.outcome \in {"success", "failure", "threw"})
  /\ [][ direct' # direct =>
           /\ healthStatus' = healthStatus
           /\ providerPriority' = providerPriority
           /\ providers' = providers
           /\ chain' = chain
       ]_vars

\* a provider without the capability of the operation was called directly
\* and threw, and it is still healthy; the other registered provider was
\* unhealthy beforehand and still is
C19_Witness ==
  /\ direct.outcome = "threw"
  /\ direct.provider \in providers
  /\ ~getProviderCapabilities(direct.provider)[OperationCapability[direct.op]]
  /\ healthStatus[direct.provider]
  /\ \E q \in providers \ {direct.provider} : ~healthStatus[q]

(***************************************************************************)
(* C20. Every result a shipped provider returns, to a chain or to a caller *)
(* that named it, and every result the factory returns satisfies: a result *)
(* with success == false has its error set; a result with success == true  *)
(* has the data the provider built and the name of the provider that       *)
(* built it (the factory hands it on as it is); and a result has the       *)
(* provider "factory" exactly when it is the failure the factory builds    *)
(* itself at the end of a chain.                                           *)
(***************************************************************************)
C20_ResultsWellFormed ==
  /\ direct.outcome \in {"success", "failure"} =>
       /\ ResultOfProvider(direct.response, direct.provider)
       /\ direct.response.success = (direct.outcome = "success")
  /\ \A c \in DOMAIN chain :
       /\ chain[c].outcome \in {"success", "failure"} =>
            /\ ResultOfProvider(chain[c].last, LastSettled(chain[c]))
            /\ chain[c].last.success = (chain[c].outcome = "success")
       /\ chain[c].pc = "done" =>
            IF chain[c].result.success
            THEN /\ chain[c].outcome = "success"
                 /\ chain[c].result = chain[c].last
            ELSE /\ chain[c].result.provider = "factory"
                 /\ chain[c].result.error \notin {NoError, "", "-"}
                 /\ chain[c].result = FactoryFailure(chain[c].errors)
       /\ chain[c].result.provider = "factory" =>
            /\ chain[c].pc = "done"
            /\ ~chain[c].result.success

\* a chain ended with the factory's own failure after a provider returned a
\* failure that names the provider and has an error text
C20_Witness ==
  \E c \in DOMAIN chain :
    /\ chain[c].pc = "done"
    /\ chain[c].result.provider = "factory"
    /\ chain[c].outcome = "failure"
    /\ chain[c].last.provider = DisplayName[Last(chain[c].invoked)]
    /\ chain[c].last.error = "Failed to fetch holdings: " \o NetworkFailureText

(***************************************************************************)
(* C21. An entry of the health map goes from healthy to unhealthy only in  *)
(* the step in which a call of that provider, awaited by a fallback chain, *)
(* is rejected: not when the provider is invoked, and never in a step in   *)
(* which a call returns success or a domain failure, a chain starts (and   *)
(* skips candidates), setProviderPriority or healthCheck runs, or a        *)
(* provider is called through getProvider.                                 *)
(***************************************************************************)
C21_UnhealthyOnlyAfterThrow ==
  [][ /\ \A p \in providers :
           (healthStatus[p] /\ ~healthStatus'[p]) =>
             \E c \in DOMAIN chain :
               /\ chain[c].pc = "await"
               /\ Last(chain[c].invoked) = p
               /\ ResolveStep(c, "threw")
               /\ Last(chain'[c].errors) \in ThrowEntries(p)
      /\ \A c \in DOMAIN chain, p \in providers :
           Invokes(c, p) => healthStatus'[p]
      /\ ( \/ \E c \in DOMAIN chain :
                \/ ResolveStep(c, "success")
                \/ ResolveStep(c, "failure")
                \/ CallStep(c)
           \/ providerPriority' # providerPriority
           \/ healthResults' # healthResults
           \/ direct' # direct )
         => \A p \in providers : healthStatus[p] => healthStatus'[p]
    ]_vars

\* one chain took a domain failure from its first candidate, which is still
\* healthy, and an exception from its second, which is unhealthy now
C21_Witness ==
  \E c \in DOMAIN chain :
    /\ Len(chain[c].errors) = 2
    /\ chain[c].invoked[1] # chain[c].invoked[2]
    /\ chain[c].errors[1] \in FailureEntries(chain[c].invoked[1])
    /\ chain[c].errors[2] \in ThrowEntries(chain[c].invoked[2])
    /\ healthStatus[chain[c].invoked[1]]
    /\ ~healthStatus[chain[c].invoked[2]]

(***************************************************************************)
(* C28 (as stated). Within one fallback chain every registered provider is *)
(* invoked at most once, whatever list setProviderPriority was given, a    *)
(* list that names a provider more than once included.                     *)
(***************************************************************************)
C28_InvokedAtMostOnce ==
  \A c \in DOMAIN chain :
    \A p \in providers : Count(chain[c].invoked, p) <= 1

(***************************************************************************)
(* C30. getPerformance of the factory calls no provider and returns the    *)
(* factory failure with an empty list of messages ("All providers failed.  *)
(* Errors: "), whatever providers are registered, whatever the priority    *)
(* list and the health map are: the capability matrix has performance      *)
(* false for all five providers.                                           *)
(***************************************************************************)
C30_PerformanceNeverInvokes ==
  /\ \A p \in ProviderName : ~getProviderCapabilities(p)["performance"]
  /\ \A c \in DOMAIN chain :
       chain[c].op = "getPerformance" =>
         /\ chain[c].pc = "done"
         /\ chain[c].invoked = <<>>
         /\ chain[c].errors = <<>>
         /\ chain[c].fetches = 0
         /\ chain[c].result = FactoryFailure(<<>>)
         /\ chain[c].result.error = "All providers failed. Errors: "
         /\ chain[c].result.provider = "factory"

\* getPerformance has returned on a factory with two registered providers
\* in a custom order, one of them healthy and one unhealthy
C30_Witness ==
  \E c \in DOMAIN chain :
    /\ chain[c].op = "getPerformance"
    /\ chain[c].pc = "done"
    /\ Len(chain[c].list) = 2
    /\ chain[c].list # setDefaultPriority(providers)
    /\ healthStatus[chain[c].list[1]]
    /\ ~healthStatus[chain[c].list[2]]

(***************************************************************************)
(* C29. In a factory over the five shipped providers every entry of the    *)
(* health map is healthy in every reachable state: no provider call is     *)
(* rejected, so the catch branch of the fallback loop is never taken, and  *)
(* healthCheck() reports true for every registered provider.               *)
(***************************************************************************)
C29_ShippedAlwaysHealthy ==
  /\ \A p \in providers : healthStatus[p]
  /\ \A c \in DOMAIN chain :
       /\ chain[c].outcome # "threw"
       /\ chain[c].pc # "rejected"
       /\ \A i \in 1..Len(chain[c].errors) :
            chain[c].errors[i] \notin ThrowEntries(chain[c].invoked[i])
  /\ healthResults.settled =>
       /\ DOMAIN healthResults.map = providers
       /\ \A p \in providers : healthResults.map[p]

\* a chain ran out of candidates after a request of its first provider
\* failed at the network level and the second got a body that is not JSON;
\* both are healthy, as a healthCheck has reported too
C29_Witness ==
  \E c \in DOMAIN chain :
    /\ chain[c].pc = "done"
    /\ ~chain[c].result.success
    /\ Len(chain[c].invoked) = 2
    /\ chain[c].errors[1] =
         chain[c].invoked[1] \o ": " \o CatchPrefix[chain[c].op] \o NetworkFailureText
    /\ chain[c].errors[2] =
         chain[c].invoked[2] \o ": " \o CatchPrefix[chain[c].op] \o makeRequest("malformed")
    /\ healthResults.settled
    /\ \A p \in providers : healthStatus[p]

(***************************************************************************)
(* C22. Within one fallback chain at most one provider call is in flight:  *)
(* the chain is suspended exactly while one call is outstanding, and it    *)
(* invokes a further candidate only in the step in which the outstanding   *)
(* call settles with a domain failure or an exception (a success ends the  *)
(* chain); steps of another chain, of setProviderPriority or of            *)
(* healthCheck do not make it move.                                        *)
(***************************************************************************)
C22_OneCallInFlight ==
  /\ [](\A c \in DOMAIN chain :
          /\ InFlight(chain[c]) \in {0, 1}
          /\ (InFlight(chain[c]) = 1) = (chain[c].pc = "await"))
  /\ [][ \A c \in DOMAIN chain :
           /\ Len(chain'[c].invoked) > Len(chain[c].invoked) =>
                /\ Len(chain'[c].invoked) = Len(chain[c].invoked) + 1
                /\ \/ CallStep(c)
                   \/ /\ Len(chain'[c].errors) = Len(chain[c].errors) + 1
                      /\ \/ ResolveStep(c, "failure")
                         \/ ResolveStep(c, "threw")
           /\ ResolveStep(c, "success") =>
                /\ chain'[c].pc = "done"
                /\ chain'[c].invoked = chain[c].invoked
           /\ (chain[c].pc = "await" /\ chain'[c] # chain[c]) =>
                /\ chain'[c].outcome \in {"success", "failure", "threw"}
                /\ InFlight(chain'[c]) = InFlight(chain[c])
                     \/ chain'[c].pc = "done"
                /\ \A d \in DOMAIN chain \ {c} : chain'[d] = chain[d]
       ]_vars

\* both chains are suspended, each on its second candidate after its first
\* one has answered, and each has one call outstanding
C22_Witness ==
  \A c \in DOMAIN chain :
    /\ chain[c].pc = "await"
    /\ Len(chain[c].invoked) = 2
    /\ Len(chain[c].errors) = 1
    /\ InFlight(chain[c]) = 1
    /\ DOMAIN chain = ConcurrentChains

(***************************************************************************)
(* C23. With two fallback chains in flight on one factory, provider A can  *)
(* have returned a success to one chain while the exception A raised in    *)
(* the other chain has marked A unhealthy.  The first chain returns A's    *)
(* success as it is: whatever the health map says, a suspended chain can   *)
(* take its provider's success and returns it unchanged, and a result that *)
(* is ready is not touched by the steps of others.  A second exception     *)
(* from A leaves the health map as the first left it.                      *)
(***************************************************************************)
C23_SuccessKeptUnderHealthRace ==
  /\ [](\A c \in DOMAIN chain :
          chain[c].pc = "await" =>
            \A data \in ConcurrentData :
              ENABLED ( /\ ResolveSuccess(c, data)
                        /\ chain'[c].pc = "done"
                        /\ chain'[c].result =
                             createSuccessResponse(Current(chain[c]), data)
                        /\ healthStatus' = healthStatus ))
  /\ [][ \A c \in DOMAIN chain :
           /\ ResolveStep(c, "success") =>
                /\ chain'[c].pc = "done"
                /\ chain'[c].result.success
                /\ chain'[c].result.provider = DisplayName[Current(chain[c])]
                /\ chain'[c].result.data \in DataValues
                /\ healthStatus' = healthStatus
           /\ (chain[c].pc = "done" /\ chain'[c].pc = "done") =>
                chain'[c].result = chain[c].result
           /\ ResolveStep(c, "threw") =>
                /\ healthStatus' = [healthStatus EXCEPT ![Current(chain[c])] = FALSE]
                /\ ~healthStatus[Current(chain[c])] => healthStatus' = healthStatus
       ]_vars

\* chain 2 started while chain 1 was suspended on A; A answered chain 1 with
\* a success and chain 2 with an exception; A is unhealthy and chain 1 holds
\* A's success
C23_Witness ==
  \E a \in providers :
    /\ chain[1].pc = "done"
    /\ chain[1].invoked = <<a>>
    /\ chain[1].result = createSuccessResponse(a, "data1")
    /\ chain[2].met = {1}
    /\ chain[2].invoked # <<>>
    /\ chain[2].errors # <<>>
    /\ chain[2].invoked[1] = a
    /\ chain[2].errors[1] \in ThrowEntries(a)
    /\ ~healthStatus[a]

(***************************************************************************)
(* C24. The loop tests the health of a candidate when it comes to that     *)
(* candidate, in the health map as it is then, not as it was when the      *)
(* activation started: every entry an activation passes over is            *)
(* unregistered, incapable or unhealthy in the current map, and the        *)
(* provider it invokes is healthy in the current map.  So a provider that  *)
(* another activation has marked unhealthy in the meantime is skipped,     *)
(* and one that healthCheck has restored in the meantime is invoked.       *)
(***************************************************************************)
C24_HealthReadAtConsideration ==
  [][ \A c \in DOMAIN chain :
        (chain'[c] # chain[c] /\ chain'[c].pc # "idle") =>
          /\ \A j \in (chain[c].idx + 1)..(chain'[c].idx - 1) :
               ~Eligible(chain'[c].list[j], chain'[c].capability, healthStatus')
          /\ \A p \in providers :
               Invokes(c, p) => Eligible(p, chain'[c].capability, healthStatus')
    ]_vars

\* activation c started when b was healthy, has passed over b after the
\* exception another activation met at b, and has returned the factory
\* failure; activation d started when a was unhealthy and has invoked a
\* after healthCheck restored it
C24_Witness ==
  \E c, d \in DOMAIN chain, a, b \in providers :
    /\ c # d /\ a # b
    /\ chain[c].pc = "done"
    /\ chain[c].list = <<a, b>>
    /\ chain[c].invoked = <<a>>
    /\ AggregateExhausted(chain[c].result)
    /\ chain[c].seen[b]
    /\ getProviderCapabilities(b)[chain[c].capability]
    /\ ~healthStatus[b]
    /\ chain[d].invoked = <<b, a>>
    /\ chain[d].errors # <<>>
    /\ chain[d].errors[1] \in ThrowEntries(b)
    /\ ~chain[d].seen[a]

(***************************************************************************)
(* C27. setProviderPriority called while an activation is in flight does   *)
(* not change the order or the candidates of that activation: the step     *)
(* that replaces the priority list leaves every activation as it is, an    *)
(* activation keeps the list it started with until it has returned, and    *)
(* what it invokes is taken from that list in its order.  Only an          *)
(* activation started afterwards iterates the new list.                    *)
(***************************************************************************)
C27_InFlightKeepsItsList ==
  /\ [](\A c \in DOMAIN chain : IsSubseq(chain[c].invoked, chain[c].list))
  /\ [][ \A c \in DOMAIN chain :
           /\ providerPriority' # providerPriority => chain'[c] = chain[c]
           /\ (chain[c].pc # "idle" /\ chain'[c].pc # "idle") =>
                chain'[c].list = chain[c].list
           /\ CallStep(c) => chain'[c].list = providerPriority
           /\ \A p \in providers :
                Invokes(c, p) => /\ chain'[c].idx > chain[c].idx
                                 /\ p = chain'[c].list[chain'[c].idx]
       ]_vars

\* activation c started with the list <<a, b>>; while it was suspended on a
\* the list was replaced by <<a>>, with which activation d started (a was
\* still healthy then and d is still suspended on a); the call of c to a
\* then threw and c went on to b, which the new list does not name
C27_Witness ==
  \E c, d \in DOMAIN chain, a, b \in providers :
    /\ c # d /\ a # b
    /\ providerPriority = <<a>>
    /\ chain[c].list = <<a, b>>
    /\ chain[c].invoked = <<a, b>>
    /\ chain[c].errors # <<>>
    /\ chain[c].errors[1] \in ThrowEntries(a)
    /\ ~healthStatus[a]
    /\ chain[d].pc = "await"
    /\ chain[d].list = <<a>>
    /\ chain[d].met = {c}
    /\ chain[d].seen[a]

C26_ChainTerminates ==
  /\ [](\A c \in Chains :
          /\ Len(chain[c].invoked) <= Len(chain[c].list)
          /\ chain[c].pc = "done" =>
               \/ /\ chain[c].result.success
                  /\ chain[c].result = chain[c].last
                  /\ chain[c].result.provider = DisplayName[Last(chain[c].invoked)]
                  /\ Len(chain[c].errors) = Len(chain[c].invoked) - 1
               \/ /\ chain[c].result = FactoryFailure(chain[c].errors)
                  /\ Len(chain[c].errors) = Len(chain[c].invoked))
  /\ [][ \A c \in Chains, p \in providers :
           (Invokes(c, p) /\ chain[c].pc = "await") => chain'[c].idx > chain[c].idx
       ]_vars
  /\ \A c \in Chains : (chain[c].pc = "await") ~> (chain[c].pc = "done")

\* an activation has made as many invocations as its list has entries, two,
\* and has returned the factory failure
C26_Witness ==
  \E c \in Chains :
    /\ chain[c].pc = "done"
    /\ Len(chain[c].list) = 2
    /\ Len(chain[c].invoked) = 2
    /\ Len(chain[c].errors) = 2
    /\ AggregateExhausted(chain[c].result)

====
